---- MODULE Spec2Model ----
(***************************************************************************)
(* A model of the Genesis DB Python client (src/genesisdb/client.py).      *)
(*                                                                         *)
(* Text is a sequence of characters and a response body is a sequence of   *)
(* bytes.  The alphabet is small.  Bytes LF and SP are newline and space;  *)
(* the two bytes C3 A9 are the UTF-8 encoding of one non-ASCII character,  *)
(* written U after decoding; every other byte is one ASCII character.      *)
(* JSON documents are written in a compact alphabet: an object is "{",     *)
(* member atoms, "}", where the atom E stands for the members              *)
(* "source":"s","type":"t", P for "payload":"", Q for "payload":"x" and U  *)
(* for a member "name":"<the two-byte character>"; "1" is a JSON number.   *)
(* Anything else is not JSON.                                              *)
(***************************************************************************)
EXTENDS Integers, Sequences, FiniteSets, TLC

VARIABLES
    config,        \* the config argument of Client(...)
    env,           \* the process environment: set of <<name, value>>
    ctor,          \* "new", "ok" or "failed": outcome of Client.__init__
    settings,      \* self.api_url, self.api_version, self.auth_token
    missing,       \* the names listed by the ValueError of __init__
    pc,            \* position of the current call
    op,            \* the operation called
    args,          \* the caller's arguments
    requests,      \* number of HTTP requests issued by the call
    request_body,  \* JSON body of the request
    response,      \* what the server answers: status, lines, unterminated tail
    wire,          \* observe: bytes of the response not yet read
    buffer,        \* observe: the line buffer
    result,        \* events / values delivered to the caller
    text,          \* audit, ping: the returned text
    reported,      \* number of decode errors reported (printed)
    raised,        \* the exception propagated to the caller
    conn_open,     \* whether the call holds an open HTTP connection
    calls          \* the observe_events calls running side by side

ctorVars == <<config, env, ctor, settings, missing>>
callVars == <<pc, op, args, requests, request_body, response, wire, buffer,
              result, text, reported, raised, conn_open>>
vars == <<config, env, ctor, settings, missing, pc, op, args, requests,
          request_body, response, wire, buffer, result, text, reported,
          raised, conn_open, calls>>

(***************************************************************************)
(* Bounds of the model.                                                    *)
(***************************************************************************)
MaxLines == 2      \* newline-terminated lines in a response body
MaxChunk == 3      \* bytes in one chunk of aiter_bytes
MaxEvents == 2     \* events in one commit_events call
MaxBody == 32      \* bytes in a body of marked lines

(***************************************************************************)
(* Characters and bytes.                                                   *)
(***************************************************************************)
LF == "LF"
SP == "SP"
Whitespace == {LF, SP}

MinOf(S) == CHOOSE x \in S : \A y \in S : x <= y
MaxOf(S) == CHOOSE x \in S : \A y \in S : x >= y

\* chunk.decode('utf-8'): strict decoding of one chunk on its own
RECURSIVE DecodeUtf8(_)
DecodeUtf8(bytes) ==
    IF bytes = <<>> THEN [ok |-> TRUE, text |-> <<>>]
    ELSE IF Head(bytes) = "C3"
         THEN IF Len(bytes) >= 2 /\ bytes[2] = "A9"
              THEN LET rest == DecodeUtf8(SubSeq(bytes, 3, Len(bytes)))
                   IN  [ok |-> rest.ok, text |-> <<"U">> \o rest.text]
              ELSE [ok |-> FALSE, text |-> <<>>]
    ELSE IF Head(bytes) = "A9"
         THEN [ok |-> FALSE, text |-> <<>>]
    ELSE LET rest == DecodeUtf8(Tail(bytes))
         IN  [ok |-> rest.ok, text |-> <<Head(bytes)>> \o rest.text]

\* the server side: the bytes of a text
RECURSIVE EncodeUtf8(_)
EncodeUtf8(chars) ==
    IF chars = <<>> THEN <<>>
    ELSE (IF Head(chars) = "U" THEN <<"C3", "A9">> ELSE <<Head(chars)>>)
         \o EncodeUtf8(Tail(chars))

\* str.strip()
Strip(s) ==
    LET keep == {i \in 1..Len(s) : s[i] \notin Whitespace}
    IN  IF keep = {} THEN <<>> ELSE SubSeq(s, MinOf(keep), MaxOf(keep))

\* index of the first newline of s, 0 when there is none ('\n' in s)
FirstLF(s) ==
    LET at == {i \in 1..Len(s) : s[i] = LF}
    IN  IF at = {} THEN 0 ELSE MinOf(at)

\* s.split('\n', 1) when s holds a newline
SplitOnce(s) ==
    [line |-> SubSeq(s, 1, FirstLF(s) - 1),
     rest |-> SubSeq(s, FirstLF(s) + 1, Len(s))]

\* a split that keeps the newline-terminated segments only
RECURSIVE Split_TerminatedOnly(_)
Split_TerminatedOnly(s) ==
    IF FirstLF(s) = 0 THEN <<>>
    ELSE <<SplitOnce(s).line>> \o Split_TerminatedOnly(SplitOnce(s).rest)

\* s.split('\n')
RECURSIVE Split(_)
Split(s) ==
    IF FirstLF(s) = 0 THEN <<s>>
    ELSE <<SplitOnce(s).line>> \o Split(SplitOnce(s).rest)

(***************************************************************************)
(* JSON values: an object is a set of <<key, value>> pairs, one per key.   *)
(***************************************************************************)
MemberAtoms == {"E", "P", "Q", "U"}

AtomPairs(a) ==
    CASE a = "E" -> <<<<"source", "s">>, <<"type", "t">>>>
      [] a = "P" -> <<<<"payload", "">>>>
      [] a = "Q" -> <<<<"payload", "x">>>>
      [] a = "U" -> <<<<"name", "U">>>>
      [] OTHER   -> <<>>

Keys(obj) == {p[1] : p \in obj}
Get(obj, k) == IF k \in Keys(obj) THEN (CHOOSE p \in obj : p[1] = k)[2] ELSE "None"
Put(obj, k, v) == {p \in obj : p[1] # k} \cup {<<k, v>>}

RECURSIVE PutAll(_, _)
PutAll(obj, pairs) ==
    IF pairs = <<>> THEN obj
    ELSE PutAll(Put(obj, Head(pairs)[1], Head(pairs)[2]), Tail(pairs))

RECURSIVE Members(_, _)
Members(obj, atoms) ==
    IF atoms = <<>> THEN obj
    ELSE Members(PutAll(obj, AtomPairs(Head(atoms))), Tail(atoms))

NoValue == [kind |-> "none", members |-> {}]

\* json.loads(s): ok = FALSE stands for json.JSONDecodeError
JsonLoads(s) ==
    LET t == Strip(s)
        inner == SubSeq(t, 2, Len(t) - 1)
        atoms == SelectSeq(inner, LAMBDA c : c # SP)
    IN  IF t = <<"1">>
        THEN [ok |-> TRUE, value |-> [kind |-> "number", members |-> {}]]
        ELSE IF /\ Len(t) >= 2
                /\ t[1] = "{"
                /\ t[Len(t)] = "}"
                /\ \A i \in 1..Len(inner) : inner[i] \in MemberAtoms \cup {SP}
        THEN [ok |-> TRUE,
              value |-> [kind |-> "object", members |-> Members({}, atoms)]]
        ELSE [ok |-> FALSE, value |-> NoValue]

\* CloudEvent(json_data) of cloudevents.http: the attributes with the
\* defaults filled in; exc names the exception it raises instead
CloudEvent(v) ==
    IF v.kind # "object"
    THEN [exc |-> "AttributeError", event |-> {}]
    ELSE IF ~ ({"source", "type"} \subseteq Keys(v.members))
    THEN [exc |-> "MissingRequiredFields", event |-> {}]
    ELSE [exc |-> "none",
          event |-> v.members
                    \cup {d \in {<<"specversion", "1.0">>, <<"id", "generated">>,
                                 <<"time", "generated">>} :
                            d[1] \notin Keys(v.members)}]

(***************************************************************************)
(* Client.__init__ and _check_required_env.                                *)
(***************************************************************************)
ConfigKeys == <<"api_url", "api_version", "auth_token">>
required_env_vars ==
    <<"GENESISDB_API_URL", "GENESISDB_API_VERSION", "GENESISDB_AUTH_TOKEN">>

NoConfig == [given |-> FALSE, items |-> {}]

\* truth value of a dictionary argument that may be None ("if config:")
Truthy(d) == d.given /\ d.items # {}

\* os.getenv(name, ''): '' when the variable is not set
GetEnv(e, name) == IF name \in Keys(e) THEN Get(e, name) ELSE ""

\* config.get(key) or os.getenv(name, '')
Setting(c, e, i) ==
    IF Truthy(c) /\ ConfigKeys[i] \in Keys(c.items) /\ Get(c.items, ConfigKeys[i]) # ""
    THEN Get(c.items, ConfigKeys[i])
    ELSE GetEnv(e, required_env_vars[i])

\* [var for var in required_env_vars if not os.getenv(var)]
missing_env_vars(e) ==
    SelectSeq(required_env_vars, LAMBDA name : GetEnv(e, name) = "")

Construct ==
    /\ ctor = "new"
    /\ LET s == [i \in 1..3 |-> Setting(config, env, i)]
           check == \E i \in 1..3 : s[i] = ""
           miss == IF check THEN missing_env_vars(env) ELSE <<>>
       IN  /\ settings' = s
           /\ missing' = miss
           /\ ctor' = IF miss # <<>> THEN "failed" ELSE "ok"
    /\ UNCHANGED <<config, env>>
    /\ UNCHANGED <<callVars, calls>>

(***************************************************************************)
(* Request bodies.                                                         *)
(***************************************************************************)
NoOptions == [given |-> FALSE, items |-> {}]

\* a translation that copies every known option, set or not
ApiOptions_Defaults(items) ==
    {<<"lowerBound", Get(items, "lower_bound")>>,
     <<"includeLowerBoundEvent", Get(items, "include_lower_bound_event")>>,
     <<"latestByEventType", Get(items, "latest_by_event_type")>>}

\* the three "if ... in options" of stream_events and observe_events
ApiOptions(items) ==
    LET a0 == {}
        a1 == IF "lower_bound" \in Keys(items)
              THEN Put(a0, "lowerBound", Get(items, "lower_bound")) ELSE a0
        a2 == IF "include_lower_bound_event" \in Keys(items)
              THEN Put(a1, "includeLowerBoundEvent",
                       Get(items, "include_lower_bound_event")) ELSE a1
        a3 == IF "latest_by_event_type" \in Keys(items)
              THEN Put(a2, "latestByEventType", Get(items, "latest_by_event_type"))
              ELSE a2
    IN  a3

EmptyBody ==
    [keys |-> {}, options |-> {}, events |-> <<>>, preconditions |-> <<>>]

\* request_body of stream_events and observe_events
SubjectBody(options) ==
    IF Truthy(options)
    THEN [EmptyBody EXCEPT !.keys = {"subject", "options"},
                           !.options = ApiOptions(options.items)]
    ELSE [EmptyBody EXCEPT !.keys = {"subject"}]

\* event_data of one event of commit_events
FormatEvent(event) ==
    IF event.has_options
    THEN [keys |-> {"source", "subject", "type", "data", "options"},
          options |-> IF "store_data_as_reference" \in Keys(event.options)
                      THEN Put({}, "storeDataAsReference",
                               Get(event.options, "store_data_as_reference"))
                      ELSE {}]
    ELSE [keys |-> {"source", "subject", "type", "data"}, options |-> {}]

\* request_body of commit_events
CommitBody(events, preconditions) ==
    LET formatted == [i \in 1..Len(events) |-> FormatEvent(events[i])]
    IN  IF preconditions.given /\ Len(preconditions.list) > 0
        THEN [EmptyBody EXCEPT !.keys = {"events", "preconditions"},
                               !.events = formatted,
                               !.preconditions = preconditions.list]
        ELSE [EmptyBody EXCEPT !.keys = {"events"}, !.events = formatted]

(***************************************************************************)
(* Responses.                                                              *)
(***************************************************************************)
NoResponse == [net |-> "none", status |-> 0, lines |-> <<>>, tail |-> <<>>]

RECURSIVE JoinLines(_)
JoinLines(lines) ==
    IF lines = <<>> THEN <<>>
    ELSE Head(lines) \o <<LF>> \o JoinLines(Tail(lines))

\* the bytes of the response body
BodyBytes(resp) == EncodeUtf8(JoinLines(resp.lines) \o resp.tail)

\* response.text: the complete body, decoded
ResponseText(resp) == DecodeUtf8(BodyBytes(resp)).text

\* a status check that raises on 4xx and 5xx only
RaiseForStatus_ErrorsOnly(status) == status >= 400

\* response.raise_for_status(): raises unless the status is 2xx
RaiseForStatus(status) == ~ (200 <= status /\ status <= 299)

NoExc == [exc |-> "none", status |-> 0]
HTTPStatusError(status) == [exc |-> "HTTPStatusError", status |-> status]
Exc(name) == [exc |-> name, status |-> 0]

\* an exit that leaves the connection as it is
AsyncWithExit_Leak(open) == open

\* leaving "async with": the connection of the call is closed
AsyncWithExit(open) == FALSE

(***************************************************************************)
(* Decoding of a complete body: stream_events and q.                       *)
(***************************************************************************)
Event(attrs) == [kind |-> "event", members |-> attrs]

\* a loop that takes blank lines for data
IsBlank_Never(line) == FALSE

\* "if not line: continue"
IsBlank(line) == line = <<>>

\* the for loop of stream_events; a failing CloudEvent(...) leaves the loop
RECURSIVE StreamLoop(_, _, _)
StreamLoop(lines, events, rep) ==
    IF lines = <<>> THEN [values |-> events, reported |-> rep, exc |-> "none"]
    ELSE LET line == Strip(Head(lines))
             j == JsonLoads(line)
             ce == CloudEvent(j.value)
         IN  IF IsBlank(line) THEN StreamLoop(Tail(lines), events, rep)
             ELSE IF ~ j.ok THEN StreamLoop(Tail(lines), events, rep + 1)
             ELSE IF ce.exc # "none"
             THEN [values |-> <<>>, reported |-> rep, exc |-> ce.exc]
             ELSE StreamLoop(Tail(lines), Append(events, Event(ce.event)), rep)

\* the for loop of q
RECURSIVE QLoop(_, _, _)
QLoop(lines, results, rep) ==
    IF lines = <<>> THEN [values |-> results, reported |-> rep, exc |-> "none"]
    ELSE LET line == Strip(Head(lines))
             j == JsonLoads(line)
         IN  IF IsBlank(line) THEN QLoop(Tail(lines), results, rep)
             ELSE IF ~ j.ok THEN QLoop(Tail(lines), results, rep + 1)
             ELSE QLoop(Tail(lines), Append(results, j.value), rep)

\* "if not raw_text or raw_text.strip() == ''"
IsEmptyText(raw_text) == raw_text = <<>> \/ Strip(raw_text) = <<>>

StreamEventsDecode(raw_text) ==
    IF IsEmptyText(raw_text)
    THEN [values |-> <<>>, reported |-> 0, exc |-> "none"]
    ELSE StreamLoop(Split(Strip(raw_text)), <<>>, 0)

QDecode(raw_text) ==
    IF IsEmptyText(raw_text)
    THEN [values |-> <<>>, reported |-> 0, exc |-> "none"]
    ELSE QLoop(Split(Strip(raw_text)), <<>>, 0)

(***************************************************************************)
(* One line of observe_events.                                             *)
(***************************************************************************)
DataPrefix == <<"d", "a", "t", "a", ":", SP>>
DataPrefixLen == 6

StartsWith(s, prefix) ==
    Len(s) >= Len(prefix) /\ SubSeq(s, 1, Len(prefix)) = prefix

\* a strip that removes the marker as often as it is there
RECURSIVE StripData_Repeated(_)
StripData_Repeated(line) ==
    IF StartsWith(line, DataPrefix)
    THEN StripData_Repeated(SubSeq(line, DataPrefixLen + 1, Len(line)))
    ELSE line

\* line[6:] if line.startswith('data: ') else line
StripData(line) ==
    IF StartsWith(line, DataPrefix)
    THEN SubSeq(line, DataPrefixLen + 1, Len(line))
    ELSE line

\* a keepalive test that looks at the payload only
IsKeepAlive_PayloadOnly(members) == Get(members, "payload") = ""

\* json_data.get('payload') == '' and len(json_data) == 1
IsKeepAlive(members) ==
    Get(members, "payload") = "" /\ Cardinality(members) = 1

\* what the body of the while loop does with one stripped line
ObserveLineOutcome(line) ==
    LET j == JsonLoads(StripData(line))
        ce == CloudEvent(j.value)
    IN  IF IsBlank(line) THEN [kind |-> "blank", event |-> NoValue]
        ELSE IF ~ j.ok THEN [kind |-> "json_error", event |-> NoValue]
        ELSE IF j.value.kind # "object"
        THEN [kind |-> "event_error", event |-> NoValue]
        ELSE IF IsKeepAlive(j.value.members)
        THEN [kind |-> "keepalive", event |-> NoValue]
        ELSE IF ce.exc # "none" THEN [kind |-> "event_error", event |-> NoValue]
        ELSE [kind |-> "yield", event |-> Event(ce.event)]

(***************************************************************************)
(* The operations.  A call that awaits one response is one action; the     *)
(* async generator observe_events is one action per step between two       *)
(* suspension points.                                                      *)
(***************************************************************************)
NoArgs == [options |-> NoOptions, events |-> <<>>,
           preconditions |-> [given |-> FALSE, list |-> <<>>]]

Decoded(values, rep, exc, txt) ==
    [values |-> values, reported |-> rep, exc |-> exc, text |-> txt]

Nothing == Decoded(<<>>, 0, "none", <<>>)

\* the call is entered and its one request is sent
Send(name, a, body, resp) ==
    /\ pc = "idle"
    /\ ctor = "ok"
    /\ op' = name
    /\ args' = a
    /\ requests' = requests + 1
    /\ request_body' = body
    /\ response' = resp
    /\ UNCHANGED <<ctorVars, calls>>

\* "raise": the exception leaves the call through the "async with" blocks
\* (open: whether a connection was open when the exception was raised)
Raise(e, rep, open) ==
    /\ pc' = "raised"
    /\ raised' = e
    /\ reported' = rep
    /\ conn_open' = AsyncWithExit(open)
    /\ wire' = <<>>
    /\ buffer' = <<>>
    /\ UNCHANGED <<result, text>>

\* "return": the value leaves the call through the "async with" block
Return(d) ==
    /\ pc' = "returned"
    /\ result' = d.values
    /\ text' = d.text
    /\ reported' = d.reported
    /\ conn_open' = AsyncWithExit(TRUE)
    /\ UNCHANGED <<raised, wire, buffer>>

\* the try block of a call that awaits one complete response
Answer(resp, d) ==
    IF resp.net = "fail" THEN Raise(Exc("ConnectError"), 0, FALSE)
    ELSE IF RaiseForStatus(resp.status)
    THEN Raise(HTTPStatusError(resp.status), 0, TRUE)
    ELSE IF d.exc # "none" THEN Raise(Exc(d.exc), d.reported, TRUE)
    ELSE Return(d)

StreamEvents(options, resp) ==
    /\ Send("stream_events", [NoArgs EXCEPT !.options = options],
            SubjectBody(options), resp)
    /\ LET d == StreamEventsDecode(ResponseText(resp))
       IN  Answer(resp, Decoded(d.values, d.reported, d.exc, <<>>))

CommitEvents(events, preconditions, resp) ==
    /\ Send("commit_events",
            [NoArgs EXCEPT !.events = events, !.preconditions = preconditions],
            CommitBody(events, preconditions), resp)
    /\ Answer(resp, Nothing)

EraseData(resp) ==
    /\ Send("erase_data", NoArgs, [EmptyBody EXCEPT !.keys = {"subject"}], resp)
    /\ Answer(resp, Nothing)

Audit(resp) ==
    /\ Send("audit", NoArgs, EmptyBody, resp)
    /\ Answer(resp, Decoded(<<>>, 0, "none", ResponseText(resp)))

Ping(resp) ==
    /\ Send("ping", NoArgs, EmptyBody, resp)
    /\ Answer(resp, Decoded(<<>>, 0, "none", ResponseText(resp)))

Q(resp) ==
    /\ Send("q", NoArgs, [EmptyBody EXCEPT !.keys = {"query"}], resp)
    /\ LET d == QDecode(ResponseText(resp))
       IN  Answer(resp, Decoded(d.values, d.reported, d.exc, <<>>))

\* observe_events up to the first read of the response stream
ObserveOpen(options, resp) ==
    /\ Send("observe_events", [NoArgs EXCEPT !.options = options],
            SubjectBody(options), resp)
    /\ IF resp.net = "fail" THEN Raise(Exc("ConnectError"), 0, FALSE)
       ELSE IF RaiseForStatus(resp.status)
       THEN Raise(HTTPStatusError(resp.status), 0, TRUE)
       ELSE /\ pc' = "streaming"
            /\ conn_open' = TRUE
            /\ wire' = BodyBytes(resp)
            /\ buffer' = <<>>
            /\ UNCHANGED <<result, text, reported, raised>>

Running == pc \in {"streaming", "yielded"}

\* aiter_bytes delivers the next n bytes: "buffer += chunk.decode('utf-8')"
ObserveChunk(n) ==
    /\ Running
    /\ FirstLF(buffer) = 0
    /\ n \in 1..Len(wire)
    /\ LET d == DecodeUtf8(SubSeq(wire, 1, n))
       IN  IF ~ d.ok THEN Raise(Exc("UnicodeDecodeError"), reported, conn_open)
           ELSE /\ pc' = "streaming"
                /\ buffer' = buffer \o d.text
                /\ wire' = SubSeq(wire, n + 1, Len(wire))
                /\ UNCHANGED <<result, text, reported, raised, conn_open>>
    /\ UNCHANGED <<op, args, requests, request_body, response>>
    /\ UNCHANGED <<ctorVars, calls>>

\* one turn of "while '\n' in buffer"
ObserveLine ==
    /\ Running
    /\ FirstLF(buffer) # 0
    /\ LET o == ObserveLineOutcome(Strip(SplitOnce(buffer).line))
       IN  /\ buffer' = SplitOnce(buffer).rest
           /\ pc' = IF o.kind = "yield" THEN "yielded" ELSE "streaming"
           /\ result' = IF o.kind = "yield" THEN Append(result, o.event) ELSE result
           /\ reported' = IF o.kind \in {"json_error", "event_error"}
                          THEN reported + 1 ELSE reported
    /\ UNCHANGED <<op, args, requests, request_body, response, wire, text,
                   raised, conn_open>>
    /\ UNCHANGED <<ctorVars, calls>>

\* the server closes the stream: the generator is exhausted
ObserveEnd ==
    /\ Running
    /\ FirstLF(buffer) = 0
    /\ wire = <<>>
    /\ pc' = "exhausted"
    /\ buffer' = <<>>
    /\ conn_open' = AsyncWithExit(conn_open)
    /\ UNCHANGED <<op, args, requests, request_body, response, wire, result,
                   text, reported, raised>>
    /\ UNCHANGED <<ctorVars, calls>>

\* the connection fails while a chunk is awaited
ObserveReadError ==
    /\ Running
    /\ FirstLF(buffer) = 0
    /\ Raise(Exc("ReadError"), reported, conn_open)
    /\ UNCHANGED <<op, args, requests, request_body, response>>
    /\ UNCHANGED <<ctorVars, calls>>

\* the caller leaves its "async for" at a yielded event
ObserveAbandon ==
    /\ pc = "yielded"
    /\ pc' = "abandoned"
    /\ UNCHANGED <<op, args, requests, request_body, response, wire, buffer,
                   result, text, reported, raised, conn_open>>
    /\ UNCHANGED <<ctorVars, calls>>

\* aclose(): GeneratorExit is thrown in at the yield
ObserveClose ==
    /\ pc \in {"yielded", "abandoned"}
    /\ pc' = "closed"
    /\ conn_open' = AsyncWithExit(conn_open)
    /\ wire' = <<>>
    /\ buffer' = <<>>
    /\ UNCHANGED <<op, args, requests, request_body, response, result, text,
                   reported, raised>>
    /\ UNCHANGED <<ctorVars, calls>>

(***************************************************************************)
(* observe_events called twice on one client, the calls running side by   *)
(* side.  Each call is an async generator of its own: it opens its own     *)
(* AsyncClient and response, and "buffer" is a local variable of its       *)
(* frame.                                                                  *)
(***************************************************************************)
Callers == {1, 2}

NoCall == [pc |-> "idle", response |-> NoResponse, wire |-> <<>>,
           buffer |-> <<>>, result |-> <<>>, reported |-> 0,
           raised |-> NoExc, conn_open |-> FALSE]

\* one buffer that all calls use
BufferOwner_Shared(c) == 1

\* "buffer = ''": the frame that holds the buffer call c works on
BufferOwner(c) == c

GetBuffer(c) == calls[BufferOwner(c)].buffer
SetBuffer(cs, c, b) == [cs EXCEPT ![BufferOwner(c)].buffer = b]

ConcRunning(c) == calls[c].pc \in {"streaming", "yielded"}

\* "raise" in call c
ConcRaise(c, e) ==
    calls' = SetBuffer([calls EXCEPT ![c].pc = "raised",
                                     ![c].raised = e,
                                     ![c].conn_open = AsyncWithExit(@),
                                     ![c].wire = <<>>], c, <<>>)

\* call c up to its first read of the response stream
ConcOpen(c, resp) ==
    /\ ctor = "ok"
    /\ calls[c].pc = "idle"
    /\ IF resp.net = "fail"
       THEN calls' = [calls EXCEPT ![c].pc = "raised",
                                   ![c].response = resp,
                                   ![c].raised = Exc("ConnectError"),
                                   ![c].conn_open = AsyncWithExit(FALSE)]
       ELSE IF RaiseForStatus(resp.status)
       THEN calls' = [calls EXCEPT ![c].pc = "raised",
                                   ![c].response = resp,
                                   ![c].raised = HTTPStatusError(resp.status),
                                   ![c].conn_open = AsyncWithExit(TRUE)]
       ELSE calls' = SetBuffer([calls EXCEPT ![c].pc = "streaming",
                                             ![c].response = resp,
                                             ![c].conn_open = TRUE,
                                             ![c].wire = BodyBytes(resp)],
                               c, <<>>)
    /\ UNCHANGED <<ctorVars, callVars>>

\* call c reads its next n bytes
ConcChunk(c, n) ==
    /\ ConcRunning(c)
    /\ FirstLF(GetBuffer(c)) = 0
    /\ n \in 1..Len(calls[c].wire)
    /\ LET d == DecodeUtf8(SubSeq(calls[c].wire, 1, n))
       IN  IF ~ d.ok THEN ConcRaise(c, Exc("UnicodeDecodeError"))
           ELSE calls' = SetBuffer(
                    [calls EXCEPT ![c].pc = "streaming",
                                  ![c].wire = SubSeq(@, n + 1, Len(@))],
                    c, GetBuffer(c) \o d.text)
    /\ UNCHANGED <<ctorVars, callVars>>

\* one turn of "while '\n' in buffer" in call c
ConcLine(c) ==
    /\ ConcRunning(c)
    /\ FirstLF(GetBuffer(c)) # 0
    /\ LET o == ObserveLineOutcome(Strip(SplitOnce(GetBuffer(c)).line))
       IN  calls' = SetBuffer(
               [calls EXCEPT
                   ![c].pc = IF o.kind = "yield" THEN "yielded" ELSE "streaming",
                   ![c].result = IF o.kind = "yield" THEN Append(@, o.event)
                                 ELSE @,
                   ![c].reported = IF o.kind \in {"json_error", "event_error"}
                                   THEN @ + 1 ELSE @],
               c, SplitOnce(GetBuffer(c)).rest)
    /\ UNCHANGED <<ctorVars, callVars>>

\* the stream of call c ends
ConcEnd(c) ==
    /\ ConcRunning(c)
    /\ FirstLF(GetBuffer(c)) = 0
    /\ calls[c].wire = <<>>
    /\ calls' = SetBuffer([calls EXCEPT ![c].pc = "exhausted",
                                        ![c].conn_open = AsyncWithExit(@)],
                          c, <<>>)
    /\ UNCHANGED <<ctorVars, callVars>>

\* the connection of call c fails while a chunk is awaited
ConcReadError(c) ==
    /\ ConcRunning(c)
    /\ FirstLF(GetBuffer(c)) = 0
    /\ ConcRaise(c, Exc("ReadError"))
    /\ UNCHANGED <<ctorVars, callVars>>

\* the caller closes call c at a yielded event
ConcClose(c) ==
    /\ calls[c].pc = "yielded"
    /\ calls' = SetBuffer([calls EXCEPT ![c].pc = "closed",
                                        ![c].conn_open = AsyncWithExit(@),
                                        ![c].wire = <<>>], c, <<>>)
    /\ UNCHANGED <<ctorVars, callVars>>

(***************************************************************************)
(* Inputs.                                                                 *)
(***************************************************************************)
Absent == "absent"

\* dictionaries: one value or no entry for each key
Dicts(choices) ==
    {{<<k, c[k]>> : k \in {x \in DOMAIN choices : c[x] # Absent}} :
        c \in [DOMAIN choices -> UNION {choices[k] : k \in DOMAIN choices}
                                  \cup {Absent}]}

ValidDicts(choices) ==
    {d \in Dicts(choices) : \A p \in d : p[2] \in choices[p[1]]}

OptionChoices ==
    [lower_bound |-> {"ID", "None"},
     include_lower_bound_event |-> {"true", "false"},
     latest_by_event_type |-> {"t"},
     limit |-> {"5"}]

OptionInputs ==
    {NoOptions} \cup {[given |-> TRUE, items |-> d] : d \in ValidDicts(OptionChoices)}

EventInputs ==
    {[has_options |-> FALSE, options |-> {}]}
    \cup {[has_options |-> TRUE, options |-> d] :
            d \in ValidDicts([store_data_as_reference |-> {"true", "false"},
                              other |-> {"1"}])}

SeqsUpTo(S, n) == UNION {[1..k -> S] : k \in 0..n}

PreconditionInputs ==
    {[given |-> FALSE, list |-> <<>>], [given |-> TRUE, list |-> <<>>],
     [given |-> TRUE, list |-> <<"isSubjectNew">>]}

LineTexts ==
    {<<"{", "E", "}">>, <<"{", "E", "U", "}">>, <<"{", "P", "}">>,
     <<"{", "P", "E", "}">>, <<"{", "Q", "}">>, <<"{", "}">>, <<"1">>, <<"x">>,
     <<>>, <<SP>>, <<"d", "a", "t", "a", ":", SP, "{", "E", "}">>}

TailTexts == {<<>>, <<SP>>, <<"{", "E", "}">>}

Failed == [NoResponse EXCEPT !.net = "fail"]
Status(s) == [NoResponse EXCEPT !.net = "ok", !.status = s]

SmallResponses ==
    {Failed} \cup {Status(s) : s \in {200, 204, 301, 404, 500}}
    \cup {[Status(200) EXCEPT !.lines = <<<<"{", "E", "}">>>>]}

RichResponses ==
    {Failed, Status(404)}
    \cup {[Status(200) EXCEPT !.lines = l, !.tail = t] :
            l \in SeqsUpTo(LineTexts, MaxLines), t \in TailTexts}

(***************************************************************************)
(* Specifications.                                                         *)
(***************************************************************************)
IdleCall ==
    /\ pc = "idle"
    /\ op = "none"
    /\ args = NoArgs
    /\ requests = 0
    /\ request_body = EmptyBody
    /\ response = NoResponse
    /\ wire = <<>>
    /\ buffer = <<>>
    /\ result = <<>>
    /\ text = <<>>
    /\ reported = 0
    /\ raised = NoExc
    /\ conn_open = FALSE
    /\ calls = [c \in Callers |-> NoCall]

\* a client constructed from a complete config
Init ==
    /\ config = [given |-> TRUE,
                 items |-> {<<ConfigKeys[i], "v">> : i \in 1..3}]
    /\ env = {}
    /\ ctor = "ok"
    /\ settings = [i \in 1..3 |-> "v"]
    /\ missing = <<>>
    /\ IdleCall

Observe ==
    \/ \E n \in 1..MaxChunk : ObserveChunk(n)
    \/ ObserveLine
    \/ ObserveEnd
    \/ ObserveReadError
    \/ ObserveAbandon
    \/ ObserveClose

\* no call is in progress: the guard of every operation (see Send)
Idle == pc = "idle" /\ ctor = "ok"

\* the operations, called with arguments and answered with responses drawn
\* from the given sets
CallStreamEvents(options, responses) ==
    Idle /\ \E o \in options, r \in responses : StreamEvents(o, r)

CallCommitEvents(responses) ==
    Idle /\ \E e \in SeqsUpTo(EventInputs, MaxEvents), p \in PreconditionInputs,
               r \in responses : CommitEvents(e, p, r)

CallEraseData(responses) == Idle /\ \E r \in responses : EraseData(r)

CallAudit(responses) == Idle /\ \E r \in responses : Audit(r)

CallPing(responses) == Idle /\ \E r \in responses : Ping(r)

CallQ(responses) == Idle /\ \E r \in responses : Q(r)

CallObserveEvents(options, responses) ==
    Idle /\ \E o \in options, r \in responses : ObserveOpen(o, r)

\* every operation, every option dictionary, short responses
Next ==
    \/ CallStreamEvents(OptionInputs, SmallResponses)
    \/ CallCommitEvents(SmallResponses)
    \/ CallEraseData(SmallResponses)
    \/ CallAudit(SmallResponses)
    \/ CallPing(SmallResponses)
    \/ CallQ(SmallResponses)
    \/ CallObserveEvents(OptionInputs, SmallResponses)
    \/ Observe

Spec == Init /\ [][Next]_vars

\* the decoding operations on every body of up to MaxLines lines
NextDecode ==
    \/ CallStreamEvents({NoOptions}, RichResponses)
    \/ CallQ(RichResponses)
    \/ CallObserveEvents({NoOptions}, RichResponses)
    \/ Observe

SpecDecode == Init /\ [][NextDecode]_vars

\* lines with and without the 'data: ' marker
MarkedLineTexts ==
    {<<"{", "E", "}">>,
     <<"d", "a", "t", "a", ":", SP, "{", "E", "}">>,
     <<"d", "a", "t", "a", ":", SP, "d", "a", "t", "a", ":", SP, "{", "E", "}">>,
     <<"d", "a", "t", "a", ":", SP, "x">>,
     <<"d", "a", "t", "a", ":", SP, "{", "P", "}">>,
     <<"d", "a", "t", "a", ":", "{", "E", "}">>}

MarkedResponses ==
    {Failed, Status(404)}
    \cup {r \in {[Status(200) EXCEPT !.lines = l] :
                    l \in SeqsUpTo(MarkedLineTexts, MaxLines)} :
             Len(BodyBytes(r)) <= MaxBody}

\* the decoding operations on bodies of marked and unmarked lines
NextData ==
    \/ CallStreamEvents({NoOptions}, MarkedResponses)
    \/ CallQ(MarkedResponses)
    \/ CallObserveEvents({NoOptions}, MarkedResponses)
    \/ Observe

SpecData == Init /\ [][NextData]_vars

\* the bodies of the calls that run side by side
ConcLineTexts == {<<"{", "E", "}">>, <<"{", "E", "U", "}">>}

ConcResponses ==
    {Failed, Status(404)}
    \cup {[Status(200) EXCEPT !.lines = l] : l \in SeqsUpTo(ConcLineTexts, MaxLines)}

ConcOpenAny == \E c \in Callers, r \in ConcResponses : ConcOpen(c, r)
ConcChunkAny == \E c \in Callers, n \in 1..MaxChunk : ConcChunk(c, n)
ConcLineAny == \E c \in Callers : ConcLine(c)
ConcEndAny == \E c \in Callers : ConcEnd(c)
ConcReadErrorAny == \E c \in Callers : ConcReadError(c)
ConcCloseAny == \E c \in Callers : ConcClose(c)

\* two observe_events calls, their steps interleaved in every order
NextConc ==
    \/ ConcOpenAny
    \/ ConcChunkAny
    \/ ConcLineAny
    \/ ConcEndAny
    \/ ConcReadErrorAny
    \/ ConcCloseAny

SpecConc == Init /\ [][NextConc]_vars

\* construction, from every config and environment
ConfigInputs ==
    {NoConfig}
    \cup {[given |-> TRUE, items |-> d] :
            d \in ValidDicts([api_url |-> {"", "v"}, api_version |-> {"", "v"},
                              auth_token |-> {"", "v"}])}

EnvInputs ==
    ValidDicts([GENESISDB_API_URL |-> {"", "v"},
                GENESISDB_API_VERSION |-> {"", "v"},
                GENESISDB_AUTH_TOKEN |-> {"", "v"}])

InitCtor ==
    /\ config \in ConfigInputs
    /\ env \in EnvInputs
    /\ ctor = "new"
    /\ settings = [i \in 1..3 |-> ""]
    /\ missing = <<>>
    /\ IdleCall

NextCtor == Construct

SpecCtor == InitCtor /\ [][NextCtor]_vars

(***************************************************************************)
(* What a response is expected to give, line by line.                      *)
(***************************************************************************)
\* the lines a call has to decode: an unterminated tail is a line of a
\* complete body, and is no line of a stream
CallLines(resp, o) ==
    resp.lines \o (IF o # "observe_events" /\ resp.tail # <<>>
                   THEN <<resp.tail>> ELSE <<>>)

LineJson(l, o) ==
    JsonLoads(IF o = "observe_events" THEN StripData(Strip(l)) ELSE Strip(l))

IsKeepAliveObject(v) == v.kind = "object" /\ v.members = {<<"payload", "">>}

IsEventObject(v) == v.kind = "object" /\ {"source", "type"} \subseteq Keys(v.members)

LineClass(l, o) ==
    IF Strip(l) = <<>> THEN "blank"
    ELSE IF ~ LineJson(l, o).ok THEN "bad"
    ELSE IF o = "q" THEN "valid"
    ELSE IF o = "observe_events" /\ IsKeepAliveObject(LineJson(l, o).value)
    THEN "keepalive"
    ELSE IF IsEventObject(LineJson(l, o).value) THEN "valid"
    ELSE "malformed"

LineValue(l, o) ==
    IF o = "q" THEN LineJson(l, o).value
    ELSE Event(CloudEvent(LineJson(l, o).value).event)

\* the values of the valid lines, in line order
Expected(resp, o) ==
    LET valid == SelectSeq(CallLines(resp, o), LAMBDA l : LineClass(l, o) = "valid")
    IN  [i \in 1..Len(valid) |-> LineValue(valid[i], o)]

CountOf(resp, o, classes) ==
    Cardinality({i \in 1..Len(CallLines(resp, o)) :
                    LineClass(CallLines(resp, o)[i], o) \in classes})

\* the call has ended on a 2xx response that the network delivered completely
Completed ==
    /\ response.net = "ok"
    /\ response.status \in 200..299
    /\ pc \in {"returned", "raised", "exhausted"}
    /\ raised.exc # "ReadError"

\* the events of the newline-terminated lines of a text, as the while loop
\* of observe_events yields them
RECURSIVE EventsOfText(_)
EventsOfText(buf) ==
    IF FirstLF(buf) = 0 THEN <<>>
    ELSE LET o == ObserveLineOutcome(Strip(SplitOnce(buf).line))
         IN  (IF o.kind = "yield" THEN <<o.event>> ELSE <<>>)
             \o EventsOfText(SplitOnce(buf).rest)

(***************************************************************************)
(* C1: in observe_events every splitting of the same byte stream into      *)
(* chunks yields the same events in the same order with the same outcome:  *)
(* whatever the chunks were, a call that read the stream to its end or     *)
(* stopped on an error of its own has delivered what the stream gives when *)
(* it arrives as one chunk, and has raised only if that raises.            *)
(***************************************************************************)
C1_ChunkBoundaryInsensitive ==
    (op = "observe_events" /\ Completed)
        => /\ result = EventsOfText(DecodeUtf8(BodyBytes(response)).text)
           /\ raised.exc = "none"

(***************************************************************************)
(* C2: in stream_events, q and observe_events a line that is not JSON is   *)
(* reported once and skipped, and the valid lines around it are delivered  *)
(* in order without the call raising: on a body of valid, blank and        *)
(* unparsable lines the result is the values of the valid lines and there  *)
(* is one report per unparsable line.                                      *)
(***************************************************************************)
C2_BadLineSkipped ==
    (/\ op \in {"stream_events", "q", "observe_events"}
     /\ Completed
     /\ CountOf(response, op, {"bad"}) >= 1
     /\ CountOf(response, op, {"malformed", "keepalive"}) = 0)
        => /\ raised = NoExc
           /\ result = Expected(response, op)
           /\ reported = CountOf(response, op, {"bad"})

(***************************************************************************)
(* C3: a line that is JSON but no event is reported and skipped, in        *)
(* stream_events as in observe_events: the events of the other lines are   *)
(* delivered and no exception reaches the caller.                          *)
(***************************************************************************)
C3_MalformedEventSkipped ==
    (/\ op \in {"stream_events", "observe_events"}
     /\ Completed
     /\ raised.exc # "UnicodeDecodeError"
     /\ CountOf(response, op, {"malformed"}) >= 1)
        => /\ raised = NoExc
           /\ result = Expected(response, op)
           /\ reported = CountOf(response, op, {"bad", "malformed"})

(***************************************************************************)
(* C4: the events delivered by a stream_events or observe_events call are  *)
(* the events of the successfully decoded lines, in line order, each once. *)
(***************************************************************************)
C4_DeliveredInLineOrder ==
    (/\ op \in {"stream_events", "observe_events"}
     /\ Completed
     /\ raised.exc # "UnicodeDecodeError")
        => result = Expected(response, op)

(***************************************************************************)
(* C5: on a non-2xx response every operation raises an error that carries  *)
(* the status code of the response, after exactly one request, and         *)
(* delivers no result, text or event.                                      *)
(***************************************************************************)
C5_NonSuccessRaises ==
    (op # "none" /\ response.net = "ok" /\ response.status \notin 200..299)
        => /\ pc = "raised"
           /\ raised = [exc |-> "HTTPStatusError", status |-> response.status]
           /\ requests = 1
           /\ result = <<>>
           /\ text = <<>>

C5_Witness ==
    /\ op = "commit_events"
    /\ response.status = 301
    /\ pc = "raised"
    /\ raised.status = 301
    /\ requests = 1

(***************************************************************************)
(* C6: in observe_events the object with the single member payload = ""    *)
(* is dropped without an event, a report or an exception, and no other     *)
(* object is: a decoded object with another member or another payload      *)
(* gives an event or a report.  In stream_events that object is a decoded  *)
(* line like any other: it is never dropped silently.                      *)
(***************************************************************************)
C6_LineTaken ==
    /\ op = "observe_events"
    /\ pc \in {"streaming", "yielded"}
    /\ FirstLF(buffer) # 0
    /\ buffer' = SplitOnce(buffer).rest
    /\ pc' \in {"streaming", "yielded"}

C6_LineRule ==
    LET j == LineJson(SplitOnce(buffer).line, "observe_events")
    IN  /\ (j.ok /\ IsKeepAliveObject(j.value))
              => /\ result' = result
                 /\ reported' = reported
                 /\ raised' = NoExc
                 /\ pc' = "streaming"
        /\ (j.ok /\ j.value.kind = "object" /\ ~ IsKeepAliveObject(j.value))
              => \/ Len(result') = Len(result) + 1 /\ reported' = reported
                 \/ result' = result /\ reported' = reported + 1

C6_StreamRule ==
    (/\ op = "stream_events"
     /\ Completed
     /\ \E i \in 1..Len(CallLines(response, op)) :
           /\ LineJson(CallLines(response, op)[i], op).ok
           /\ IsKeepAliveObject(LineJson(CallLines(response, op)[i], op).value))
        => \/ raised.exc # "none"
           \/ Len(result) + reported = Len(CallLines(response, op))
                                       - CountOf(response, op, {"blank"})

C6_KeepAliveOnlyInObserve ==
    /\ [][C6_LineTaken => C6_LineRule]_vars
    /\ [] C6_StreamRule

C6_Witness ==
    /\ op = "observe_events"
    /\ pc = "exhausted"
    /\ response.lines = <<<<"{", "P", "}">>, <<"{", "P", "E", "}">>>>
    /\ Len(result) = 1
    /\ reported = 0
    /\ raised = NoExc

(***************************************************************************)
(* C7: the options object of a stream_events or observe_events request     *)
(* holds the wire key and the caller's value of every option the caller    *)
(* set and nothing else, and so does the options object of each event of   *)
(* commit_events for storeDataAsReference.                                 *)
(***************************************************************************)
WireName(k) ==
    CASE k = "lower_bound" -> "lowerBound"
      [] k = "include_lower_bound_event" -> "includeLowerBoundEvent"
      [] k = "latest_by_event_type" -> "latestByEventType"
      [] k = "store_data_as_reference" -> "storeDataAsReference"
      [] OTHER -> "none"

WireOptions(items) ==
    {<<WireName(p[1]), p[2]>> : p \in {q \in items : WireName(q[1]) # "none"}}

C7_OptionsTranslated ==
    /\ op \in {"stream_events", "observe_events"}
          => IF "options" \in request_body.keys
             THEN request_body.options = WireOptions(args.options.items)
             ELSE WireOptions(args.options.items) = {}
    /\ op = "commit_events"
          => /\ Len(request_body.events) = Len(args.events)
             /\ \A i \in 1..Len(args.events) :
                   IF "options" \in request_body.events[i].keys
                   THEN request_body.events[i].options
                            = WireOptions(args.events[i].options)
                   ELSE ~ args.events[i].has_options

C7_Witness ==
    /\ op = "stream_events"
    /\ args.options.items
          = {<<"lower_bound", "ID">>, <<"include_lower_bound_event", "true">>}
    /\ request_body.keys = {"subject", "options"}
    /\ request_body.options
          = {<<"lowerBound", "ID">>, <<"includeLowerBoundEvent", "true">>}

(***************************************************************************)
(* C8: stream_events and q return the empty list, without an error, on an  *)
(* empty or whitespace-only body, and skip blank lines between valid       *)
(* lines: on a body of valid and blank lines the result is the values of   *)
(* the valid lines and nothing is reported.                                *)
(***************************************************************************)
C8_BlankLinesSkipped ==
    (/\ op \in {"stream_events", "q"}
     /\ Completed
     /\ CountOf(response, op, {"bad", "malformed"}) = 0)
        => /\ pc = "returned"
           /\ raised = NoExc
           /\ result = Expected(response, op)
           /\ Len(result) = Len(CallLines(response, op))
                            - CountOf(response, op, {"blank"})
           /\ reported = 0

C8_Witness ==
    /\ op = "stream_events"
    /\ pc = "returned"
    /\ response.lines = <<<<SP>>, <<>>>>
    /\ response.tail = <<SP>>
    /\ result = <<>>
    /\ reported = 0

Supplied(i) ==
    \/ config.given /\ Get(config.items, ConfigKeys[i]) \notin {"None", ""}
    \/ GetEnv(env, required_env_vars[i]) # ""

C10_MissingSettingsListed ==
    ctor # "new"
        => /\ ctor = "failed" <=> \E i \in 1..3 : ~ Supplied(i)
           /\ {missing[j] : j \in 1..Len(missing)}
                 = {required_env_vars[i] : i \in {k \in 1..3 : ~ Supplied(k)}}

(***************************************************************************)
(* C11: text after the last newline.  When the stream of observe_events    *)
(* ends, what is left in the buffer is discarded: it gives no event and no *)
(* report, so the events are those of the newline-terminated lines alone.  *)
(* stream_events and q decode the final segment of the body without a      *)
(* trailing newline: the call ends as it ends on the same body with the    *)
(* newline added, and a returned call accounts for the final segment.      *)
(***************************************************************************)
\* the response with a newline added after its unterminated tail
Terminated(resp) ==
    IF resp.tail = <<>> THEN resp
    ELSE [resp EXCEPT !.lines = resp.lines \o <<resp.tail>>, !.tail = <<>>]

\* the non-blank lines of a terminated response up to the first one that is
\* JSON but no event (all of them for q, or when there is none)
DecodedPrefix(resp, o) ==
    LET ls == resp.lines
        stop == {i \in 1..Len(ls) : LineClass(ls[i], o) = "malformed"}
        upto == IF stop = {} THEN Len(ls) ELSE MinOf(stop) - 1
    IN  SelectSeq(SubSeq(ls, 1, upto), LAMBDA l : LineClass(l, o) # "blank")

C11_ObserveEndStep ==
    /\ op = "observe_events"
    /\ pc \in {"streaming", "yielded"}
    /\ pc' = "exhausted"

C11_RemainderDiscarded ==
    /\ result' = result
    /\ reported' = reported
    /\ raised' = NoExc

C11_ObserveRule ==
    (op = "observe_events" /\ pc = "exhausted")
        => /\ result = EventsOfText(JoinLines(response.lines))
           /\ Len(result) + reported
                 <= Len(response.lines) - CountOf(response, op, {"blank"})

C11_WholeBodyRule ==
    (op \in {"stream_events", "q"} /\ Completed)
        => LET t == Terminated(response)
               seen == DecodedPrefix(t, op)
               bad == SelectSeq(seen, LAMBDA l : LineClass(l, op) = "bad")
               good == SelectSeq(seen, LAMBDA l : LineClass(l, op) = "valid")
           IN  /\ reported = Len(bad)
               /\ pc = "returned"
                     => /\ result = [i \in 1..Len(good) |-> LineValue(good[i], op)]
                        /\ Len(seen) = Len(t.lines) - Cardinality(
                              {i \in 1..Len(t.lines) :
                                  LineClass(t.lines[i], op) = "blank"})

C11_UnterminatedTail ==
    /\ [][C11_ObserveEndStep => C11_RemainderDiscarded]_vars
    /\ [] C11_ObserveRule
    /\ [] C11_WholeBodyRule

C11_Witness ==
    /\ op = "observe_events"
    /\ pc = "exhausted"
    /\ response.lines = <<<<"{", "E", "}">>>>
    /\ response.tail = <<"{", "E", "}">>
    /\ Len(result) = 1
    /\ reported = 0

(***************************************************************************)
(* C12: the marker 'data: '.  observe_events removes the six characters of *)
(* one leading marker from a line before it parses it, and no more: what   *)
(* a line gives is what its text after one marker gives, so a line with a  *)
(* second marker is no JSON, a line without a marker is parsed as it is,   *)
(* and the same JSON text gives the same event with and without the        *)
(* marker.  stream_events and q strip nothing: a marked line is no JSON.   *)
(***************************************************************************)
MarkerText == <<"d", "a", "t", "a", ":", SP>>

HasMarker(l) ==
    Len(l) >= Len(MarkerText) /\ SubSeq(l, 1, Len(MarkerText)) = MarkerText

\* the line without its first marker
Unmarked(l) ==
    IF HasMarker(l) THEN SubSeq(l, Len(MarkerText) + 1, Len(l)) ELSE l

C12_LineTaken ==
    /\ op = "observe_events"
    /\ pc \in {"streaming", "yielded"}
    /\ FirstLF(buffer) # 0
    /\ buffer' = SplitOnce(buffer).rest
    /\ pc' \in {"streaming", "yielded"}
    /\ Strip(SplitOnce(buffer).line) # <<>>

C12_LineRule ==
    LET j == JsonLoads(Unmarked(Strip(SplitOnce(buffer).line)))
    IN  /\ ~ j.ok => result' = result /\ reported' = reported + 1
        /\ (j.ok /\ IsEventObject(j.value))
              => /\ result' = Append(result, Event(CloudEvent(j.value).event))
                 /\ reported' = reported
        /\ (j.ok /\ IsKeepAliveObject(j.value))
              => result' = result /\ reported' = reported

C12_WholeBodyRule ==
    (op \in {"stream_events", "q"} /\ Completed)
        => LET seen == DecodedPrefix(Terminated(response), op)
               marked == SelectSeq(seen, LAMBDA l : HasMarker(Strip(l)))
           IN  /\ reported >= Len(marked)
               /\ pc = "returned" => Len(result) = Len(seen) - reported

C12_MarkerStrippedOnce ==
    /\ [][C12_LineTaken => C12_LineRule]_vars
    /\ [] C12_WholeBodyRule

C12_Witness ==
    /\ op = "observe_events"
    /\ pc = "exhausted"
    /\ response.lines
          = << <<"d", "a", "t", "a", ":", SP, "{", "E", "}">>,
               <<"d", "a", "t", "a", ":", SP, "d", "a", "t", "a", ":", SP,
                 "{", "E", "}">> >>
    /\ result = <<Event(CloudEvent(JsonLoads(<<"{", "E", "}">>).value).event)>>
    /\ reported = 1

(***************************************************************************)
(* C13: two observe_events calls that run side by side share nothing that  *)
(* changes.  In every interleaving of their steps each call has yielded    *)
(* the events of the lines it has taken from the bytes it has read itself, *)
(* its buffer holds the rest of those bytes and nothing else, and a call   *)
(* that read its stream to the end has yielded what its own response gives *)
(* when the call runs alone.                                               *)
(***************************************************************************)
IsPrefix(a, b) == Len(a) <= Len(b) /\ a = SubSeq(b, 1, Len(a))

\* the text call c has read so far
ReadSoFar(c) ==
    LET body == BodyBytes(calls[c].response)
    IN  DecodeUtf8(SubSeq(body, 1, Len(body) - Len(calls[c].wire)))

C13_RunningAlone(c) ==
    LET d == ReadSoFar(c)
        t == d.text
    IN  /\ d.ok
        /\ \E i \in 0..Len(t) :
              /\ i = 0 \/ t[i] = LF
              /\ calls[c].buffer = SubSeq(t, i + 1, Len(t))
              /\ calls[c].result = EventsOfText(SubSeq(t, 1, i))

C13_CallsIndependent ==
    \A c \in Callers :
        LET alone == EventsOfText(ResponseText(calls[c].response))
        IN  /\ calls[c].pc \in {"streaming", "yielded"} => C13_RunningAlone(c)
            /\ calls[c].pc = "exhausted" => calls[c].result = alone
            /\ calls[c].pc \in {"raised", "closed"}
                  => IsPrefix(calls[c].result, alone)

C13_Witness ==
    /\ calls[1].pc = "yielded"
    /\ calls[2].pc = "streaming"
    /\ calls[1].response.lines = << <<"{", "E", "}">>, <<"{", "E", "}">> >>
    /\ calls[2].response.lines = << <<"{", "E", "U", "}">>, <<"{", "E", "}">> >>
    /\ calls[1].buffer = <<"{", "E">>
    /\ calls[2].buffer = <<"{">>
    /\ Len(calls[1].result) = 1
    /\ Len(calls[2].result) = 1
    /\ calls[1].result # calls[2].result

====
